---- MODULE Spec2Model ----
(***************************************************************************)
(* The blackjack round engine of src/app.py: the Dash callback             *)
(* play_blackjack (lines 957-1535) and its helpers (lines 741-809).        *)
(*                                                                         *)
(* One step of the model is one invocation of play_blackjack, triggered by *)
(* one of the five buttons.  The state is what survives between two        *)
(* invocations: the dcc.Store "blackjack-game-state", the rows of the      *)
(* tables users / blackjack_rounds / transactions the callback writes, and *)
(* the component properties the callback outputs.                          *)
(*                                                                         *)
(* The deck is the list the code keeps: deck.pop() takes its last element. *)
(* random.shuffle(deck) picks one of the orders listed in Tops (the cards  *)
(* that come out first, the rest of the deck below them).  The suits are   *)
(* written S H D C.                                                        *)
(* The rows of blackjack_hands are write-only for the callback and are     *)
(* represented by the per-hand results it also puts in status_message.     *)
(* A pop of an empty deck (IndexError) needs 48 draws in one round and is  *)
(* outside the balances explored.                                          *)
(*                                                                         *)
(* Spec explores sessions of several rounds from a small balance;          *)
(* SpecFirstRound explores the rounds dealt before any round is completed, *)
(* from a balance large enough for a split hand to be split or doubled.    *)
(***************************************************************************)
EXTENDS Integers, Sequences, FiniteSets, TLC

VARIABLES
    tokens,            \* users.tokens of the playing user
    game_state,        \* the dcc.Store "blackjack-game-state"
    blackjack_rounds,  \* rows of blackjack_rounds, indexed by id
    transactions,      \* rows of transactions, in insertion order
    ui,                \* the output properties other than the store
    toast,             \* the toast the last call returned ("no_update" if none)
    round_start,       \* history: users.tokens just before the last accepted Deal
    round_debited,     \* history: tokens debited since (and by) that Deal
    in_flight,         \* the calls under way: sent, past their funds check if
                       \* they have one, and with nothing written yet
    helper_call        \* the hand the helper functions were last called with,
                       \* and what they returned

vars == <<tokens, game_state, blackjack_rounds, transactions, ui, toast,
          round_start, round_debited, in_flight, helper_call>>

----------------------------------------------------------------------------
(* Bounds of the exploration *)

\* how many of the shuffles listed in Tops random.shuffle may produce
NumShuffles == 9
\* the largest bet typed in the bet input
MaxBet == 2
\* the largest balance a round is started with
MaxTokens == 2
\* after this many completed rounds no further round is dealt
MaxRounds == 1

----------------------------------------------------------------------------
(* Cards and the hand evaluator *)

suits == <<"S", "H", "D", "C">>

ranks == <<"A", "2", "3", "4", "5", "6", "7", "8", "9", "10", "J", "Q", "K">>

Card(r, s) == [rank |-> r, suit |-> s]

\* [{"rank": rank, "suit": suit} for suit in suits for rank in ranks]
create_deck ==
    [ i \in 1..(Len(suits) * Len(ranks)) |->
        Card(ranks[((i - 1) % Len(ranks)) + 1], suits[((i - 1) \div Len(ranks)) + 1]) ]

\* int(card["rank"]) for the ranks that are numerals
IntRank(rank) ==
    CASE rank = "2" -> 2 [] rank = "3" -> 3 [] rank = "4" -> 4
      [] rank = "5" -> 5 [] rank = "6" -> 6 [] rank = "7" -> 7
      [] rank = "8" -> 8 [] rank = "9" -> 9 [] rank = "10" -> 10

RECURSIVE RawValue(_)
RawValue(hand) ==
    IF hand = <<>> THEN 0
    ELSE LET card == Head(hand)
             v == IF card.rank = "A" THEN 11
                  ELSE IF card.rank \in {"J", "Q", "K"} THEN 10
                  ELSE IntRank(card.rank)
         IN v + RawValue(Tail(hand))

RECURSIVE CountAces(_)
CountAces(hand) ==
    IF hand = <<>> THEN 0
    ELSE (IF Head(hand).rank = "A" THEN 1 ELSE 0) + CountAces(Tail(hand))

\* faulty variant: once the total exceeds 21 every ace is counted 1
DemoteAces_AllAtOnce(value, aces) ==
    IF value > 21 THEN value - 10 * aces ELSE value

\* while value > 21 and aces > 0: value -= 10; aces -= 1
RECURSIVE DemoteAces(_, _)
DemoteAces(value, aces) ==
    IF value > 21 /\ aces > 0 THEN DemoteAces(value - 10, aces - 1) ELSE value

calculate_hand_value(hand) == DemoteAces(RawValue(hand), CountAces(hand))

\* 10 if rank in ["10", "J", "Q", "K"] else rank: the number 10, which no
\* other rank (a string) equals, is written "10"
SplitValue(rank) == IF rank \in {"10", "J", "Q", "K"} THEN "10" ELSE rank

\* faulty variant: the two ranks are compared as they are
can_split_hand_SameRankOnly(hand) ==
    IF Len(hand) # 2 THEN FALSE
    ELSE hand[1].rank = hand[2].rank

can_split_hand(hand) ==
    IF Len(hand) # 2 THEN FALSE
    ELSE SplitValue(hand[1].rank) = SplitValue(hand[2].rank)

can_double_down(hand) == Len(hand) = 2

format_card(card) == card.rank \o card.suit

RECURSIVE format_hand(_)
format_hand(hand) ==
    IF hand = <<>> THEN <<>>
    ELSE <<format_card(Head(hand))>> \o format_hand(Tail(hand))

\* f"{format_card(dealer_hand[0])} ??"
HiddenDisplay(dealer_hand) == <<format_card(dealer_hand[1]), "??">>

----------------------------------------------------------------------------
(* The shuffles explored *)

\* the cards on top of the shuffled deck, in the order they are popped
Tops ==
    << << Card("A", "S"), Card("K", "S"), Card("K", "H"), Card("6", "S"),
          Card("5", "D") >>,
       << Card("K", "S"), Card("K", "H"), Card("6", "S"), Card("6", "H"),
          Card("A", "D"), Card("6", "D"), Card("K", "D"), Card("5", "S"),
          Card("9", "S"), Card("4", "S") >>,
       << Card("A", "S"), Card("K", "S"), Card("A", "H"), Card("K", "H") >>,
       << Card("K", "S"), Card("5", "S"), Card("A", "S"), Card("6", "S"),
          Card("6", "H"), Card("K", "H"), Card("2", "D") >>,
       << Card("8", "S"), Card("8", "H"), Card("K", "S"), Card("7", "S"),
          Card("6", "S"), Card("2", "S"), Card("K", "H"), Card("9", "S"),
          Card("3", "D"), Card("Q", "C") >>,
       << Card("6", "S"), Card("A", "S"), Card("K", "S"), Card("7", "S"),
          Card("6", "H"), Card("6", "D"), Card("K", "H") >>,
       << Card("7", "H"), Card("9", "D"), Card("6", "S"), Card("5", "C"),
          Card("8", "S"), Card("3", "S"), Card("J", "C") >>,
       << Card("K", "S"), Card("6", "S"), Card("K", "H"), Card("A", "S"),
          Card("5", "H"), Card("Q", "D") >>,
       << Card("A", "S"), Card("A", "H"), Card("K", "S"), Card("6", "S"),
          Card("A", "D"), Card("A", "C"), Card("9", "H"), Card("8", "D"),
          Card("5", "S") >>,
       << Card("10", "C"), Card("5", "H"), Card("9", "C"), Card("7", "H"),
          Card("2", "S"), Card("4", "D"), Card("3", "C"), Card("J", "S") >> >>

RECURSIVE Reverse(_)
Reverse(seq) == IF seq = <<>> THEN <<>> ELSE Append(Reverse(Tail(seq)), Head(seq))

\* the deck list whose pops give top first and then the other cards
ShuffledDeck(top) ==
    LET onTop == {top[i] : i \in 1..Len(top)}
        rest == SelectSeq(create_deck, LAMBDA c : c \notin onTop)
    IN  rest \o Reverse(top)

\* the outcomes of random.shuffle(deck) explored
Shuffles ==
    { ShuffledDeck(Tops[i]) :
        i \in 1..(IF NumShuffles < Len(Tops) THEN NumShuffles ELSE Len(Tops)) }

\* deck.pop(): the card returned and the list left
Top(deck) == deck[Len(deck)]

Pop(deck) == SubSeq(deck, 1, Len(deck) - 1)

\* the values the bet input may hold: <<>> is None, <<n>> is the number n
BetInputs == {<<>>} \cup {<<n>> : n \in (-1)..MaxBet}

----------------------------------------------------------------------------
(* The state after the blackjack tab is rendered *)

\* the local defaults play_blackjack starts every call with
BaseUi ==
    [ dealer_display |-> <<>>,
      deal_disabled |-> FALSE,
      hit_disabled |-> TRUE,
      stand_disabled |-> TRUE,
      double_disabled |-> TRUE,
      split_disabled |-> TRUE,
      results |-> <<>>,
      result_message |-> "" ]

\* the data of the dcc.Store in render_blackjack_tab; round_id None is written 0
InitialGameState ==
    [ deck |-> <<>>,
      dealer_hand |-> <<>>,
      hands |-> <<>>,
      current_hand |-> 0,
      round_id |-> 0,
      game_active |-> FALSE,
      dealer_turn |-> FALSE,
      initial_bet |-> 0 ]

\* what the three helpers return for a hand
HelperCall(hand) ==
    [ hand |-> hand,
      value |-> calculate_hand_value(hand),
      can_split |-> can_split_hand(hand),
      can_double |-> can_double_down(hand) ]

\* a session of the given opening balances: nothing dealt, no call under way
SessionOpens(balances) ==
    /\ tokens \in balances
    /\ game_state = InitialGameState
    /\ blackjack_rounds = <<>>
    /\ transactions = <<>>
    /\ ui = BaseUi
    /\ toast = "no_update"
    /\ round_start = tokens
    /\ round_debited = 0
    /\ in_flight = <<>>
    /\ helper_call = HelperCall(<<>>)

Init == SessionOpens(0..MaxTokens)

----------------------------------------------------------------------------
(* Pieces of play_blackjack *)

\* an early return: the toast and no_update for every other output
Reject(message) ==
    /\ toast' = message
    /\ UNCHANGED <<tokens, game_state, blackjack_rounds, transactions, ui,
                   round_start, round_debited>>

\* an exception after the statements committed so far: the callback returns
\* nothing, so the store and every output stay as the browser has them
Raise(balance, debited) ==
    /\ tokens' = balance
    /\ round_debited' = debited
    /\ toast' = "no_update"
    /\ UNCHANGED <<game_state, blackjack_rounds, transactions, ui, round_start>>

\* faulty variant: a blackjack paid 2:1
BlackjackPayout_TwoToOne(bet_amount) == bet_amount * 2

\* int(bet_amount * 2.5) for a positive whole bet
BlackjackPayout(bet_amount) == (bet_amount * 5) \div 2

\* faulty variant: the dealer's 21 is not looked at
ImmediateResult_NoPush(bet_amount, dealer_score) ==
    [payout |-> (bet_amount * 5) \div 2, game_result |-> "blackjack",
     result_message |-> "BLACKJACK! You win!"]

\* payout and result of a two-card 21 on the deal
ImmediateResult(bet_amount, dealer_score) ==
    IF dealer_score = 21
    THEN [payout |-> bet_amount, game_result |-> "push",
          result_message |-> "Push! Both have blackjack."]
    ELSE [payout |-> BlackjackPayout(bet_amount), game_result |-> "blackjack",
          result_message |-> "BLACKJACK! You win!"]

\* faulty variant: a tie pays nothing
SettleHand_PushLoses(hand, dealer_score) ==
    LET hand_score == calculate_hand_value(hand.cards)
    IN  IF hand.status = "bust" THEN [result |-> "lose", payout |-> 0]
        ELSE IF dealer_score > 21 THEN [result |-> "win", payout |-> hand.bet_amount * 2]
        ELSE IF hand_score > dealer_score THEN [result |-> "win", payout |-> hand.bet_amount * 2]
        ELSE IF dealer_score > hand_score THEN [result |-> "lose", payout |-> 0]
        ELSE [result |-> "push", payout |-> 0]

\* faulty variant: the status of the hand is not looked at
SettleHand_IgnoresBust(hand, dealer_score) ==
    LET hand_score == calculate_hand_value(hand.cards)
    IN  IF dealer_score > 21 THEN [result |-> "win", payout |-> hand.bet_amount * 2]
        ELSE IF hand_score > dealer_score THEN [result |-> "win", payout |-> hand.bet_amount * 2]
        ELSE IF dealer_score > hand_score THEN [result |-> "lose", payout |-> 0]
        ELSE [result |-> "push", payout |-> hand.bet_amount]

\* faulty variant: a winning 21 is paid as a blackjack
SettleHand_PaysTwentyOneAsBlackjack(hand, dealer_score) ==
    LET hand_score == calculate_hand_value(hand.cards)
        win == IF hand_score = 21 THEN (hand.bet_amount * 5) \div 2 ELSE hand.bet_amount * 2
    IN  IF hand.status = "bust" THEN [result |-> "lose", payout |-> 0]
        ELSE IF dealer_score > 21 THEN [result |-> "win", payout |-> win]
        ELSE IF hand_score > dealer_score THEN [result |-> "win", payout |-> win]
        ELSE IF dealer_score > hand_score THEN [result |-> "lose", payout |-> 0]
        ELSE [result |-> "push", payout |-> hand.bet_amount]

\* one pass of the settlement loop body
SettleHand(hand, dealer_score) ==
    LET hand_score == calculate_hand_value(hand.cards)
    IN  IF hand.status = "bust" THEN [result |-> "lose", payout |-> 0]
        ELSE IF dealer_score > 21 THEN [result |-> "win", payout |-> hand.bet_amount * 2]
        ELSE IF hand_score > dealer_score THEN [result |-> "win", payout |-> hand.bet_amount * 2]
        ELSE IF dealer_score > hand_score THEN [result |-> "lose", payout |-> 0]
        ELSE [result |-> "push", payout |-> hand.bet_amount]

SettleResults(hands, dealer_score) ==
    [i \in 1..Len(hands) |-> SettleHand(hands[i], dealer_score)]

RECURSIVE SumPayout(_)
SumPayout(results) ==
    IF results = <<>> THEN 0 ELSE Head(results).payout + SumPayout(Tail(results))

RECURSIVE SumBets(_)
SumBets(hands) ==
    IF hands = <<>> THEN 0 ELSE Head(hands).bet_amount + SumBets(Tail(hands))

\* faulty variant: only the first hand's bet is subtracted
NetChange_FirstHandOnly(total_payout, hands) == total_payout - hands[1].bet_amount

\* total_payout - sum(hand["bet_amount"] for hand in hands)
NetChange(total_payout, hands) == total_payout - SumBets(hands)

\* a total of 17 in which an ace still counts 11
SoftSeventeen(hand) ==
    /\ calculate_hand_value(hand) = 17
    /\ RawValue(hand) - 17 < 10 * CountAces(hand)

\* faulty variant: the dealer stops as soon as the score reaches 16
RECURSIVE DealerPlay_StopsAtSixteen(_, _)
DealerPlay_StopsAtSixteen(dealer_hand, deck) ==
    IF calculate_hand_value(dealer_hand) < 16
    THEN DealerPlay_StopsAtSixteen(Append(dealer_hand, Top(deck)), Pop(deck))
    ELSE [dealer_hand |-> dealer_hand, deck |-> deck]

\* faulty variant: the dealer takes a card on a soft 17
RECURSIVE DealerPlay_HitsSoftSeventeen(_, _)
DealerPlay_HitsSoftSeventeen(dealer_hand, deck) ==
    IF calculate_hand_value(dealer_hand) < 17 \/ SoftSeventeen(dealer_hand)
    THEN DealerPlay_HitsSoftSeventeen(Append(dealer_hand, Top(deck)), Pop(deck))
    ELSE [dealer_hand |-> dealer_hand, deck |-> deck]

\* the dealer's while loop: the hand and the deck it ends with
RECURSIVE DealerPlay(_, _)
DealerPlay(dealer_hand, deck) ==
    IF calculate_hand_value(dealer_hand) < 17
    THEN DealerPlay(Append(dealer_hand, Top(deck)), Pop(deck))
    ELSE [dealer_hand |-> dealer_hand, deck |-> deck]

\* the dealer's while loop reaches deck.pop() with the deck empty (IndexError)
RECURSIVE DealerRunsOut(_, _)
DealerRunsOut(dealer_hand, deck) ==
    /\ calculate_hand_value(dealer_hand) < 17
    /\ \/ deck = <<>>
       \/ DealerRunsOut(Append(dealer_hand, Top(deck)), Pop(deck))

\* whether the double button is enabled when play moves to next_hand
DoubleOffered(next_hand, balance) ==
    can_double_down(next_hand.cards) /\ balance >= next_hand.bet_amount

\* the buttons after a hand was finished and play moved to next_hand
NextHandUi(u, next_hand, balance) ==
    IF next_hand.status = "active"
    THEN [u EXCEPT !.hit_disabled = FALSE, !.stand_disabled = FALSE,
                   !.double_disabled = ~DoubleOffered(next_hand, balance)]
    ELSE u

\* faulty variant: with a hand left the finished hand stays current
Advance_StaysOnHand(gs, current_hand_idx) ==
    IF current_hand_idx + 1 < Len(gs.hands)
    THEN gs
    ELSE [gs EXCEPT !.dealer_turn = TRUE]

\* "advance": move to the next hand or raise dealer_turn
Advance(gs, current_hand_idx) ==
    IF current_hand_idx + 1 < Len(gs.hands)
    THEN [gs EXCEPT !.current_hand = current_hand_idx + 1]
    ELSE [gs EXCEPT !.dealer_turn = TRUE]

AdvanceUi(u, gs, current_hand_idx, balance) ==
    IF current_hand_idx + 1 < Len(gs.hands)
    THEN NextHandUi(u, gs.hands[current_hand_idx + 2], balance)
    ELSE u

\* the ids of the rows of blackjack_rounds with round_status 'completed'
CompletedRounds ==
    {id \in 1..Len(blackjack_rounds) : blackjack_rounds[id].round_status = "completed"}

\* faulty variant: game_active is not looked at
SettlementDue_IgnoringActive(gs) == gs.dealer_turn

\* if new_game_state.get("dealer_turn") and new_game_state.get("game_active")
SettlementDue(gs) == gs.dealer_turn /\ gs.game_active

\* the block after the button branches: dealer's turn and settlement when
\* dealer_turn and game_active are both set, and the final return
DealerTurnAndReturn(gs, balance, u, debited) ==
    IF SettlementDue(gs) /\ DealerRunsOut(gs.dealer_hand, gs.deck)
    THEN Raise(balance, debited)
    ELSE
    /\ toast' = "no_update"
    /\ round_start' = round_start
    /\ round_debited' = debited
    /\ IF SettlementDue(gs)
       THEN   LET o == DealerPlay(gs.dealer_hand, gs.deck)
                  dealer_score == calculate_hand_value(o.dealer_hand)
                  results == SettleResults(gs.hands, dealer_score)
                  total_payout == SumPayout(results)
              IN  /\ tokens' = balance + total_payout
                  /\ blackjack_rounds' =
                        [blackjack_rounds EXCEPT ![gs.round_id] =
                            [@ EXCEPT !.round_status = "completed",
                                      !.total_payout = total_payout]]
                  /\ transactions' = Append(transactions,
                        [ transaction_type |-> "blackjack_round",
                          amount |-> NetChange(total_payout, gs.hands) ])
                  /\ game_state' = [gs EXCEPT !.dealer_hand = o.dealer_hand,
                                              !.deck = o.deck,
                                              !.game_active = FALSE]
                  /\ ui' = [ BaseUi EXCEPT
                               !.dealer_display = format_hand(o.dealer_hand),
                               !.results = results,
                               !.result_message = "Round Complete!" ]
       ELSE /\ tokens' = balance
            /\ game_state' = gs
            /\ ui' = u
            /\ UNCHANGED <<blackjack_rounds, transactions>>

\* no branch matches the button: the state is returned as it came
NoBranch ==
    DealerTurnAndReturn(game_state, tokens, BaseUi, round_debited)

----------------------------------------------------------------------------
(* The button branches of play_blackjack *)

\* the deal branch once the bet is validated: debit, new round row, shuffle,
\* two cards each, and the immediate settlement of a two-card 21
DealCardsRead(bet_amount, user) ==
    /\ \E shuffled \in Shuffles :
            LET balance == tokens - bet_amount
                round_id == Len(blackjack_rounds) + 1
                player_hand == <<Top(shuffled), Top(Pop(shuffled))>>
                dealer_hand == <<Top(Pop(Pop(shuffled))), Top(Pop(Pop(Pop(shuffled))))>>
                deck == Pop(Pop(Pop(Pop(shuffled))))
                new_game_state ==
                    [ deck |-> deck,
                      dealer_hand |-> dealer_hand,
                      hands |-> << [ cards |-> player_hand,
                                     bet_amount |-> bet_amount,
                                     status |-> "active",
                                     is_doubled |-> FALSE ] >>,
                      current_hand |-> 0,
                      round_id |-> round_id,
                      game_active |-> TRUE,
                      dealer_turn |-> FALSE,
                      initial_bet |-> bet_amount ]
                player_score == calculate_hand_value(player_hand)
                dealer_score == calculate_hand_value(dealer_hand)
                row == [ initial_bet_amount |-> bet_amount,
                         round_status |-> "active",
                         total_payout |-> 0 ]
            IN  /\ toast' = "no_update"
                /\ round_start' = tokens
                /\ round_debited' = bet_amount
                /\ IF player_score = 21
                   THEN LET immediate == ImmediateResult(bet_amount, dealer_score)
                            payout == immediate.payout
                            game_result == immediate.game_result
                        IN  /\ tokens' = balance + payout
                            /\ blackjack_rounds' = Append(blackjack_rounds,
                                  [row EXCEPT !.round_status = "completed",
                                              !.total_payout = payout])
                            /\ transactions' = Append(transactions,
                                  [ transaction_type |-> "blackjack_" \o game_result,
                                    amount |-> payout - bet_amount ])
                            /\ game_state' = [new_game_state EXCEPT !.game_active = FALSE]
                            /\ ui' = [ BaseUi EXCEPT
                                         !.dealer_display = format_hand(dealer_hand),
                                         !.result_message = immediate.result_message ]
                   ELSE /\ tokens' = balance
                        /\ blackjack_rounds' = Append(blackjack_rounds, row)
                        /\ transactions' = transactions
                        /\ game_state' = new_game_state
                        /\ ui' = [ BaseUi EXCEPT
                                     !.dealer_display = HiddenDisplay(dealer_hand),
                                     !.deal_disabled = TRUE,
                                     !.hit_disabled = FALSE,
                                     !.stand_disabled = FALSE,
                                     \* user was read before the debit
                                     !.split_disabled =
                                        ~(can_split_hand(player_hand) /\ user.tokens >= bet_amount),
                                     !.double_disabled =
                                        ~(can_double_down(player_hand) /\ user.tokens >= bet_amount) ]

\* the deal branch of a call served without interruption: user holds the
\* balance the debit is applied to
DealCards(bet_amount) == DealCardsRead(bet_amount, [tokens |-> tokens])

\* the rounds explored: a round is dealt while fewer than MaxRounds rounds
\* are completed and the balance is at most MaxTokens
DealRound(bet_amount) ==
    /\ Cardinality(CompletedRounds) < MaxRounds
    /\ tokens <= MaxTokens
    /\ DealCards(bet_amount)

\* faulty variant: the balance is not compared with the bet
Deal_NoFundsCheck(bet_amount) ==
    IF bet_amount = <<>> \/ bet_amount[1] <= 0
    THEN Reject("Bet amount must be greater than 0.")
    ELSE DealRound(bet_amount[1])

\* faulty variant: the whole balance is staked instead of the bet typed
Deal_StakesBalance(bet_amount) ==
    IF bet_amount = <<>> \/ bet_amount[1] <= 0
    THEN Reject("Bet amount must be greater than 0.")
    ELSE IF tokens < bet_amount[1]
    THEN Reject("Not enough tokens for this bet.")
    ELSE DealRound(tokens)

\* button_id == "deal-button"
Deal(bet_amount) ==
    IF bet_amount = <<>> \/ bet_amount[1] <= 0
    THEN Reject("Bet amount must be greater than 0.")
    ELSE IF tokens < bet_amount[1]
    THEN Reject("Not enough tokens for this bet.")
    ELSE DealRound(bet_amount[1])

\* faulty variant: the double button stays enabled after a hit
AfterHitUi_OffersDouble(hidden) ==
    [hidden EXCEPT !.hit_disabled = FALSE, !.stand_disabled = FALSE,
                   !.double_disabled = FALSE]

\* the buttons after a hit that leaves the hand active: double and split
\* are set disabled, as they are in hidden
AfterHitUi(hidden) ==
    [hidden EXCEPT !.hit_disabled = FALSE, !.stand_disabled = FALSE,
                   !.double_disabled = TRUE, !.split_disabled = TRUE]

\* the hit/double branch after the funds check of a double
HitOrDoubleOn(sent, is_double) ==
    LET current_hand_idx == sent.current_hand
        old_hand == sent.hands[current_hand_idx + 1]
        balance == IF is_double THEN tokens - old_hand.bet_amount ELSE tokens
        debited == IF is_double THEN round_debited + old_hand.bet_amount
                   ELSE round_debited
    IN    IF sent.deck = <<>>
          THEN Raise(balance, debited)
          ELSE
          LET c == Top(sent.deck)
              cards == Append(old_hand.cards, c)
              hand_score == calculate_hand_value(cards)
              current_hand ==
                  [ cards |-> cards,
                    bet_amount |-> IF is_double THEN old_hand.bet_amount * 2
                                   ELSE old_hand.bet_amount,
                    status |-> IF hand_score > 21 THEN "bust"
                               ELSE IF is_double THEN "stand"
                               ELSE old_hand.status,
                    is_doubled |-> IF is_double THEN TRUE ELSE old_hand.is_doubled ]
              gs == [sent EXCEPT !.deck = Pop(sent.deck),
                                       !.hands[current_hand_idx + 1] = current_hand]
              hidden == [BaseUi EXCEPT !.dealer_display = HiddenDisplay(sent.dealer_hand)]
          IN  IF current_hand.status \in {"bust", "stand"}
              THEN DealerTurnAndReturn(Advance(gs, current_hand_idx), balance,
                                       AdvanceUi(hidden, gs, current_hand_idx, balance),
                                       debited)
              ELSE DealerTurnAndReturn(gs, balance, AfterHitUi(hidden), debited)

\* the same for a call served without interruption: the store is sent as it is
HitOrDouble(is_double) == HitOrDoubleOn(game_state, is_double)

\* faulty variant: a hit runs the double path
Hit_TakesDoublePath ==
    IF game_state.game_active
    THEN HitOrDouble(TRUE)
    ELSE NoBranch

\* button_id == "hit-button"
Hit ==
    IF game_state.game_active
    THEN HitOrDouble(FALSE)
    ELSE NoBranch

\* faulty variant: after the funds check a double plays as a hit
Double_PlaysAsHit ==
    IF game_state.game_active
    THEN IF tokens < game_state.hands[game_state.current_hand + 1].bet_amount
         THEN Reject("Not enough tokens to double down.")
         ELSE HitOrDouble(FALSE)
    ELSE NoBranch

\* button_id == "double-button"
Double ==
    IF game_state.game_active
    THEN IF tokens < game_state.hands[game_state.current_hand + 1].bet_amount
         THEN Reject("Not enough tokens to double down.")
         ELSE HitOrDouble(TRUE)
    ELSE NoBranch

\* faulty variant: one card is drawn and given to both hands
SplitHand_DrawsOnce ==
    LET current_hand_idx == game_state.current_hand
        old_hand == game_state.hands[current_hand_idx + 1]
        balance == tokens - old_hand.bet_amount
        c1 == Top(game_state.deck)
        current_hand == [old_hand EXCEPT !.cards = <<old_hand.cards[1], c1>>,
                                         !.status = "active"]
        second_hand == [ cards |-> <<old_hand.cards[2], c1>>,
                         bet_amount |-> current_hand.bet_amount,
                         status |-> "active",
                         is_doubled |-> FALSE ]
        gs == [game_state EXCEPT
                 !.deck = Pop(game_state.deck),
                 !.hands = Append([game_state.hands EXCEPT
                                     ![current_hand_idx + 1] = current_hand],
                                  second_hand)]
        u == [BaseUi EXCEPT
                !.dealer_display = HiddenDisplay(game_state.dealer_hand),
                !.hit_disabled = FALSE,
                !.stand_disabled = FALSE,
                !.double_disabled = ~DoubleOffered(current_hand, balance)]
    IN  DealerTurnAndReturn(gs, balance, u, round_debited + old_hand.bet_amount)

\* faulty variant: the hand split off carries twice the bet
SplitHand_DoublesSecondBet ==
    LET current_hand_idx == game_state.current_hand
        old_hand == game_state.hands[current_hand_idx + 1]
        balance == tokens - old_hand.bet_amount
        c1 == Top(game_state.deck)
        c2 == Top(Pop(game_state.deck))
        current_hand == [old_hand EXCEPT !.cards = <<old_hand.cards[1], c1>>,
                                         !.status = "active"]
        second_hand == [ cards |-> <<old_hand.cards[2], c2>>,
                         bet_amount |-> current_hand.bet_amount * 2,
                         status |-> "active",
                         is_doubled |-> FALSE ]
        gs == [game_state EXCEPT
                 !.deck = Pop(Pop(game_state.deck)),
                 !.hands = Append([game_state.hands EXCEPT
                                     ![current_hand_idx + 1] = current_hand],
                                  second_hand)]
        u == [BaseUi EXCEPT
                !.dealer_display = HiddenDisplay(game_state.dealer_hand),
                !.hit_disabled = FALSE,
                !.stand_disabled = FALSE,
                !.double_disabled = ~DoubleOffered(current_hand, balance)]
    IN  DealerTurnAndReturn(gs, balance, u, round_debited + old_hand.bet_amount)

\* the split branch after its funds check
SplitHandOn(sent) ==
    LET current_hand_idx == sent.current_hand
        old_hand == sent.hands[current_hand_idx + 1]
        balance == tokens - old_hand.bet_amount
    IN       IF Len(sent.deck) < 2
             THEN Raise(balance, round_debited + old_hand.bet_amount)
             ELSE
             LET c1 == Top(sent.deck)
                 c2 == Top(Pop(sent.deck))
                 current_hand == [old_hand EXCEPT !.cards = <<old_hand.cards[1], c1>>,
                                                  !.status = "active"]
                 second_hand == [ cards |-> <<old_hand.cards[2], c2>>,
                                  bet_amount |-> current_hand.bet_amount,
                                  status |-> "active",
                                  is_doubled |-> FALSE ]
                 gs == [sent EXCEPT
                          !.deck = Pop(Pop(sent.deck)),
                          !.hands = Append([sent.hands EXCEPT
                                              ![current_hand_idx + 1] = current_hand],
                                           second_hand)]
                 u == [BaseUi EXCEPT
                         !.dealer_display = HiddenDisplay(sent.dealer_hand),
                         !.hit_disabled = FALSE,
                         !.stand_disabled = FALSE,
                         !.double_disabled = ~DoubleOffered(current_hand, balance)]
             IN  DealerTurnAndReturn(gs, balance, u,
                                     round_debited + old_hand.bet_amount)

\* the same for a call served without interruption
SplitHand == SplitHandOn(game_state)

\* faulty variant: the balance is not compared with the hand's bet
Split_NoFundsCheck ==
    IF game_state.game_active THEN SplitHand ELSE NoBranch

\* button_id == "split-button"
Split ==
    IF game_state.game_active
    THEN IF tokens < game_state.hands[game_state.current_hand + 1].bet_amount
         THEN Reject("Not enough tokens to split.")
         ELSE SplitHand
    ELSE NoBranch

\* faulty variant: the hand is marked stand and play does not move on
Stand_StaysOnHand ==
    IF game_state.game_active
    THEN LET current_hand_idx == game_state.current_hand
             gs == [game_state EXCEPT !.hands[current_hand_idx + 1].status = "stand"]
             hidden == [BaseUi EXCEPT !.dealer_display = HiddenDisplay(game_state.dealer_hand)]
         IN  DealerTurnAndReturn(gs, tokens, hidden, round_debited)
    ELSE NoBranch

\* faulty variant: every hand of the round is marked stand
StandOn_MarksEveryHand(sent) ==
    LET current_hand_idx == sent.current_hand
        gs == [sent EXCEPT !.hands = [j \in 1..Len(sent.hands) |->
                                        [sent.hands[j] EXCEPT !.status = "stand"]]]
        hidden == [BaseUi EXCEPT !.dealer_display = HiddenDisplay(sent.dealer_hand)]
    IN  DealerTurnAndReturn(Advance(gs, current_hand_idx), tokens,
                            AdvanceUi(hidden, gs, current_hand_idx, tokens),
                            round_debited)

\* the stand branch, on the store the call was sent with
StandOn(sent) ==
    LET current_hand_idx == sent.current_hand
        gs == [sent EXCEPT !.hands[current_hand_idx + 1].status = "stand"]
        hidden == [BaseUi EXCEPT !.dealer_display = HiddenDisplay(sent.dealer_hand)]
    IN  DealerTurnAndReturn(Advance(gs, current_hand_idx), tokens,
                            AdvanceUi(hidden, gs, current_hand_idx, tokens),
                            round_debited)

\* button_id == "stand-button"
Stand ==
    IF game_state.game_active
    THEN StandOn(game_state)
    ELSE NoBranch

\* a call served from its first statement to its return, with no other call
\* of the user under way
Serialized == in_flight = <<>> /\ UNCHANGED <<in_flight, helper_call>>

Next ==
    \/ Serialized /\ \E bet_amount \in BetInputs : Deal(bet_amount)
    \/ Serialized /\ Hit
    \/ Serialized /\ Double
    \/ Serialized /\ Split
    \/ Serialized /\ Stand

Spec == Init /\ [][Next]_vars

----------------------------------------------------------------------------
(* The first round of a session, played from a larger balance *)

\* the largest balance a session whose first round is explored opens with
FirstRoundTokens == 3

InitFirstRound == SessionOpens(0..FirstRoundTokens)

\* button_id == "deal-button", explored while no round is completed
DealFirst(bet_amount) ==
    IF bet_amount = <<>> \/ bet_amount[1] <= 0
    THEN Reject("Bet amount must be greater than 0.")
    ELSE IF tokens < bet_amount[1]
    THEN Reject("Not enough tokens for this bet.")
    ELSE CompletedRounds = {} /\ DealCards(bet_amount[1])

NextFirstRound ==
    \/ Serialized /\ \E bet_amount \in BetInputs : DealFirst(bet_amount)
    \/ Serialized /\ Hit
    \/ Serialized /\ Double
    \/ Serialized /\ Split
    \/ Serialized /\ Stand

SpecFirstRound == InitFirstRound /\ [][NextFirstRound]_vars

----------------------------------------------------------------------------
(* A first round played until the deck runs out: the hands are split again *)
(* and again from a large balance, and once the deck is short every button *)
(* is pressed                                                              *)

\* the largest balance such a session opens with
DeepRoundTokens == 26
\* the deck is short when at most this many cards are left
ShortDeck == 1

InitDeepRound == SessionOpens(0..DeepRoundTokens)

DeckShort == Len(game_state.deck) <= ShortDeck

\* no round was dealt yet
NoRoundYet == blackjack_rounds = <<>>

NextDeepRound ==
    \/ Serialized /\ NoRoundYet /\ \E bet_amount \in BetInputs : DealFirst(bet_amount)
    \/ Serialized /\ Split
    \/ Serialized /\ DeckShort /\ Hit
    \/ Serialized /\ DeckShort /\ Double
    \/ Serialized /\ DeckShort /\ Stand

SpecDeepRound == InitDeepRound /\ [][NextDeepRound]_vars

----------------------------------------------------------------------------
(* The helper functions called with hands of every composition: a hand     *)
(* takes one card after another, and the helpers are called with it        *)

\* the longest hand the helpers are called with
MaxHandLen == 4

\* how many cards of the rank the hand holds
RankCount(hand, rank) == Cardinality({i \in 1..Len(hand) : hand[i].rank = rank})

\* the hand takes a card of the rank (the suits of a rank come in the order
\* of suits) and the helpers are called with it
CallHelpers(rank) ==
    /\ Len(helper_call.hand) < MaxHandLen
    /\ RankCount(helper_call.hand, rank) < Len(suits)
    /\ helper_call' =
          HelperCall(Append(helper_call.hand,
                            Card(rank, suits[RankCount(helper_call.hand, rank) + 1])))
    /\ UNCHANGED <<tokens, game_state, blackjack_rounds, transactions, ui, toast,
                   round_start, round_debited, in_flight>>

NextHelpers == \E i \in 1..Len(ranks) : CallHelpers(ranks[i])

InitHelpers == SessionOpens({0})

SpecHelpers == InitHelpers /\ [][NextHelpers]_vars

----------------------------------------------------------------------------
(* Calls of one user served concurrently: the development server answers   *)
(* every request on a thread of its own, and a debiting call reads the     *)
(* balance (get_user) in one statement and debits it in a later one. The   *)
(* calls explored are the debiting ones: deal, double, split and spin      *)

\* how many calls may stand between their balance check and their debit
MaxInFlight == 2
\* how many spins of the slot machine are explored
MaxSpins == 1
\* how many deals are explored
MaxDeals == 2

\* payouts of play_slots; 0 stands for reels that do not match
SlotMultipliers == {0, 2, 3, 5, 10, 25, 100}

\* a call that passed its funds check: its button, the amount it will debit,
\* the user row it read and the store it was sent with
Request(button, bet_amount) ==
    [ button |-> button,
      bet_amount |-> bet_amount,
      user |-> [tokens |-> tokens],
      game_state |-> game_state ]

\* the call is past its check; nothing is written yet
PastCheck(request) ==
    /\ Len(in_flight) < MaxInFlight
    /\ tokens <= MaxTokens
    /\ in_flight' = Append(in_flight, request)
    /\ UNCHANGED <<tokens, game_state, blackjack_rounds, transactions, ui, toast,
                   round_start, round_debited, helper_call>>

\* the call returns (or goes on alone): it is no longer in flight
Leaves(i) ==
    /\ in_flight' = SubSeq(in_flight, 1, i - 1) \o SubSeq(in_flight, i + 1, Len(in_flight))
    /\ UNCHANGED helper_call

Returns == UNCHANGED <<in_flight, helper_call>>

\* the spins made and under way
Spins ==
    Cardinality({i \in 1..Len(transactions) :
                    transactions[i].transaction_type \in {"slot_win", "slot_loss"}})
    + Cardinality({i \in 1..Len(in_flight) : in_flight[i].button = "spin"})

\* the deals made and under way
Deals ==
    Len(blackjack_rounds)
    + Cardinality({i \in 1..Len(in_flight) : in_flight[i].button = "deal"})

\* deal-button, up to the funds check
DealChecks(bet_amount) ==
    IF bet_amount = <<>> \/ bet_amount[1] <= 0
    THEN Reject("Bet amount must be greater than 0.") /\ Returns
    ELSE IF tokens < bet_amount[1]
    THEN Reject("Not enough tokens for this bet.") /\ Returns
    ELSE /\ CompletedRounds = {}
         /\ Deals < MaxDeals
         /\ PastCheck(Request("deal", bet_amount[1]))

\* deal-button, from the debit to the return
DealDebits(i) ==
    /\ in_flight[i].button = "deal"
    /\ CompletedRounds = {}
    /\ DealCardsRead(in_flight[i].bet_amount, in_flight[i].user)
    /\ Leaves(i)

\* double-button, up to the funds check
DoubleChecks ==
    IF game_state.game_active
    THEN IF tokens < game_state.hands[game_state.current_hand + 1].bet_amount
         THEN Reject("Not enough tokens to double down.") /\ Returns
         ELSE PastCheck(Request("double",
                                game_state.hands[game_state.current_hand + 1].bet_amount))
    ELSE NoBranch /\ Returns

\* double-button, from the debit to the return
DoubleDebits(i) ==
    /\ in_flight[i].button = "double"
    /\ HitOrDoubleOn(in_flight[i].game_state, TRUE)
    /\ Leaves(i)

\* split-button, up to the funds check
SplitChecks ==
    IF game_state.game_active
    THEN IF tokens < game_state.hands[game_state.current_hand + 1].bet_amount
         THEN Reject("Not enough tokens to split.") /\ Returns
         ELSE PastCheck(Request("split",
                                game_state.hands[game_state.current_hand + 1].bet_amount))
    ELSE NoBranch /\ Returns

\* split-button, from the debit to the return
SplitDebits(i) ==
    /\ in_flight[i].button = "split"
    /\ SplitHandOn(in_flight[i].game_state)
    /\ Leaves(i)

\* play_slots, up to the funds check
SpinChecks(bet_amount) ==
    IF bet_amount = <<>> \/ bet_amount[1] <= 0
    THEN Reject("Bet amount must be greater than 0.") /\ Returns
    ELSE IF tokens < bet_amount[1]
    THEN Reject("Not enough tokens for this bet.") /\ Returns
    ELSE /\ Spins < MaxSpins
         /\ PastCheck(Request("spin", bet_amount[1]))

\* play_slots, from the reels to the return
SpinDebits(i) ==
    /\ in_flight[i].button = "spin"
    /\ \E payout_multiplier \in SlotMultipliers :
          LET bet_amount == in_flight[i].bet_amount
              is_win == payout_multiplier > 0
              payout_amount == bet_amount * payout_multiplier
              token_change == payout_amount - bet_amount
          IN  /\ tokens' = tokens + token_change
              /\ transactions' = Append(transactions,
                    [ transaction_type |-> IF is_win THEN "slot_win" ELSE "slot_loss",
                      amount |-> token_change ])
    /\ toast' = "no_update"
    /\ UNCHANGED <<game_state, blackjack_rounds, ui, round_start, round_debited>>
    /\ Leaves(i)

NextInterleaved ==
    \/ \E bet_amount \in BetInputs : DealChecks(bet_amount)
    \/ \E i \in 1..Len(in_flight) : DealDebits(i)
    \/ DoubleChecks
    \/ \E i \in 1..Len(in_flight) : DoubleDebits(i)
    \/ SplitChecks
    \/ \E i \in 1..Len(in_flight) : SplitDebits(i)
    \/ \E bet_amount \in BetInputs : SpinChecks(bet_amount)
    \/ \E i \in 1..Len(in_flight) : SpinDebits(i)

SpecInterleaved == Init /\ [][NextInterleaved]_vars

----------------------------------------------------------------------------
(* A first round in which the stand button is sent more than once before   *)
(* the first call is served: every call works on the store it was sent     *)
(* with                                                                    *)

\* the call is sent with the store as it is; nothing is written yet
Sent(request) ==
    /\ Len(in_flight) < MaxInFlight
    /\ in_flight' = Append(in_flight, request)
    /\ UNCHANGED <<tokens, game_state, blackjack_rounds, transactions, ui, toast,
                   round_start, round_debited, helper_call>>

\* stand-button, sent while the first round is played
StandSent ==
    /\ game_state.game_active
    /\ CompletedRounds = {}
    /\ Sent(Request("stand", 0))

\* stand-button, served
StandServed(i) ==
    /\ in_flight[i].button = "stand"
    /\ StandOn(in_flight[i].game_state)
    /\ Leaves(i)

NextResent ==
    \/ Serialized /\ \E bet_amount \in BetInputs : DealFirst(bet_amount)
    \/ Serialized /\ Hit
    \/ Serialized /\ Double
    \/ Serialized /\ Split
    \/ StandSent
    \/ \E i \in 1..Len(in_flight) : StandServed(i)

SpecResent == Init /\ [][NextResent]_vars

----------------------------------------------------------------------------
(* Vocabulary of the properties *)

\* the phases of the round held in the store
PlayerTurn == game_state.game_active

Settled == game_state.round_id > 0 /\ ~game_state.game_active

\* Settled by the immediate-blackjack path of the deal branch
SettledOnDeal == Settled /\ ~game_state.dealer_turn

\* Settled by the dealer-turn block
SettledByDealer == Settled /\ game_state.dealer_turn

CurrentHand == game_state.hands[game_state.current_hand + 1]

RoundRow == blackjack_rounds[game_state.round_id]

LastTransaction == transactions[Len(transactions)]

\* this step is a call that started a round
RoundDealt == Len(blackjack_rounds') = Len(blackjack_rounds) + 1

\* this step is a call that returned a toast
Rejected == toast' # "no_update"

\* tokens taken from the balance by the debit of this step
StepDebit == IF RoundDealt THEN round_debited' ELSE round_debited' - round_debited

\* the ids of the rows of blackjack_rounds with round_status 'active'
ActiveRounds ==
    {id \in 1..Len(blackjack_rounds) : blackjack_rounds[id].round_status = "active"}

----------------------------------------------------------------------------
(* C1 *)

\* C1: conservation.  In every settled round the amount of the audit
\* transaction equals the round's total payout minus everything debited in
\* the round (bet, split and double debits), and the balance differs from the
\* balance just before the Deal by that same amount.
C1_Conservation ==
    Settled =>
        /\ Len(transactions) > 0
        /\ LastTransaction.amount = RoundRow.total_payout - round_debited
        /\ tokens - round_start = LastTransaction.amount

\* a round with a split hand was settled with something paid out
C1_Witness ==
    /\ SettledByDealer
    /\ Len(game_state.hands) = 2
    /\ RoundRow.total_payout > 0
    /\ round_debited = 2 * game_state.initial_bet

----------------------------------------------------------------------------
(* C2 *)

\* C2: a Deal received in PlayerTurn is rejected: nothing is debited, no
\* round row is created, the round in the store is unchanged, and so no more
\* than one round is ever active.
C2_DealInPlayerTurnRejected ==
    [][ (PlayerTurn /\ \E bet_amount \in BetInputs : Deal(bet_amount)) =>
            /\ Rejected
            /\ UNCHANGED <<tokens, game_state, blackjack_rounds>>
            /\ Cardinality(ActiveRounds') <= 1 ]_vars

----------------------------------------------------------------------------
(* C3 *)

\* C3: a round's payout is credited once and one audit transaction is
\* written for it: the step that completes a round credits exactly its
\* total payout and appends exactly one transaction, there are as many
\* transactions as completed rounds, and once the round is settled no call
\* other than a Deal that starts a new round changes balance, transactions
\* or round rows.
C3_SettledOnce ==
    [][ /\ Cardinality(CompletedRounds') = Cardinality(CompletedRounds) + 1 =>
              /\ Len(transactions') = Len(transactions) + 1
              /\ tokens' = tokens - StepDebit + blackjack_rounds'[game_state'.round_id].total_payout
        /\ Cardinality(CompletedRounds') \in
              {Cardinality(CompletedRounds), Cardinality(CompletedRounds) + 1}
        /\ Len(transactions') = Cardinality(CompletedRounds')
        /\ (Settled /\ ~RoundDealt) =>
              UNCHANGED <<tokens, transactions, blackjack_rounds>> ]_vars

\* a button was pressed on a round the dealer block had settled: the call
\* went through no branch and returned the default outputs
C3_Witness ==
    /\ SettledByDealer
    /\ ui = BaseUi
    /\ Len(transactions) = 1
    /\ RoundRow.total_payout > 0

----------------------------------------------------------------------------
(* C4 *)

BetInvalid(bet_amount) == bet_amount = <<>> \/ bet_amount[1] <= 0

\* C4: a Deal whose bet is missing or <= 0 returns the invalid-bet toast, a
\* Deal whose bet exceeds the balance returns the insufficient-funds toast,
\* and neither creates a round, deals a card or changes the balance.
C4_DealValidation ==
    [][ \A bet_amount \in BetInputs :
          (Deal(bet_amount) /\ (BetInvalid(bet_amount) \/ bet_amount[1] > tokens)) =>
              /\ toast' = IF BetInvalid(bet_amount)
                          THEN "Bet amount must be greater than 0."
                          ELSE "Not enough tokens for this bet."
              /\ UNCHANGED <<tokens, game_state, blackjack_rounds, transactions>> ]_vars

\* a Deal was refused for lack of funds after a round had been played
C4_Witness ==
    /\ toast = "Not enough tokens for this bet."
    /\ Settled
    /\ tokens < MaxBet

----------------------------------------------------------------------------
(* C5 *)

\* C5: in PlayerTurn with a balance below the current hand's bet, Double and
\* Split return their insufficient-funds toast and change neither the round
\* nor the balance, so that the same request meets the same state again.
C5_NoFundsNoEffect ==
    [][ (PlayerTurn /\ tokens < CurrentHand.bet_amount) =>
          /\ Double => toast' = "Not enough tokens to double down."
          /\ Split => toast' = "Not enough tokens to split."
          /\ (Double \/ Split) =>
                /\ UNCHANGED <<tokens, game_state, blackjack_rounds, transactions, ui>>
                /\ PlayerTurn'
                /\ tokens' < CurrentHand'.bet_amount ]_vars

\* a Split was refused for lack of funds
C5_Witness ==
    /\ PlayerTurn
    /\ tokens < CurrentHand.bet_amount
    /\ toast = "Not enough tokens to split."

----------------------------------------------------------------------------
(* C6 *)

\* C6: a Split on a current hand that can_split_hand refuses is rejected:
\* nothing is debited, no card is drawn, no hand is added or changed.
C6_SplitNeedsPair ==
    [][ (PlayerTurn /\ ~can_split_hand(CurrentHand.cards) /\ Split) =>
            /\ Rejected
            /\ UNCHANGED <<tokens, game_state>> ]_vars

----------------------------------------------------------------------------
(* C7 *)

\* C7: a Double on a current hand that does not hold exactly two cards is
\* rejected: nothing is debited, the bet is unchanged, no card is drawn.
C7_DoubleNeedsTwoCards ==
    [][ (PlayerTurn /\ Len(CurrentHand.cards) # 2 /\ Double) =>
            /\ Rejected
            /\ UNCHANGED <<tokens, game_state>> ]_vars

----------------------------------------------------------------------------
(* C8 *)

DealerScore == calculate_hand_value(game_state.dealer_hand)

\* the outcome the settlement rules give a hand against the dealer's score
RuleOutcome(hand, dealer_score, outcome) ==
    LET hand_score == calculate_hand_value(hand.cards)
        lost == hand.status = "bust" \/ (dealer_score <= 21 /\ hand_score < dealer_score)
        won == hand.status # "bust" /\ (dealer_score > 21 \/ hand_score > dealer_score)
    IN  /\ outcome.result = "lose" <=> lost
        /\ outcome.result = "win" <=> won
        /\ outcome.result = "push" <=> (~lost /\ ~won)
        /\ outcome.payout = CASE outcome.result = "win" -> 2 * hand.bet_amount
                              [] outcome.result = "push" -> hand.bet_amount
                              [] OTHER -> 0

\* the per-hand results as the settling call returned them
ResultsShown == SettledByDealer /\ Len(ui.results) = Len(game_state.hands)

\* C8: in the results of a round settled by the dealer block, each hand's
\* result and payout follow from that hand and the dealer's final score
\* alone (Bust: lose/0; else dealer over 21 or hand higher: win/2*bet; hand
\* lower: lose/0; equal: push/bet), and the round's total payout is their sum.
C8_PerHandSettlement ==
    ResultsShown =>
        /\ \A i \in 1..Len(game_state.hands) :
              RuleOutcome(game_state.hands[i], DealerScore, ui.results[i])
        /\ RoundRow.total_payout = SumPayout(ui.results)

\* two hands settled together, one bust and paid nothing, the other paid
C8_Witness ==
    /\ ResultsShown
    /\ Len(game_state.hands) = 2
    /\ \E i, j \in 1..2 :
          /\ game_state.hands[i].status = "bust"
          /\ ui.results[i].payout = 0
          /\ ui.results[j].payout > 0

----------------------------------------------------------------------------
(* C9 *)

\* the round was settled on the deal by a two-card 21 against a dealer
\* whose two cards are not 21
BlackjackWin == SettledOnDeal /\ DealerScore # 21

\* C9 as stated: a player blackjack against a dealer without one pays exactly
\* 2.5 times the bet, whatever the positive whole bet.
C9_PaysExactlyFiveHalves ==
    BlackjackWin => 2 * RoundRow.total_payout = 5 * game_state.initial_bet

\* C9 as amended: the payout is 2.5 times the bet rounded down to a whole
\* number of tokens (exactly 2.5 times an even bet), and the balance differs
\* from the balance before the Deal by the payout less the bet.
C9_PaysFiveHalvesRoundedDown ==
    BlackjackWin =>
        LET bet == game_state.initial_bet
            payout == RoundRow.total_payout
        IN  /\ 2 * payout <= 5 * bet
            /\ 5 * bet < 2 * payout + 2
            /\ bet % 2 = 0 => 2 * payout = 5 * bet
            /\ tokens - round_start = payout - bet

\* a blackjack was paid on an even bet
C9_Witness ==
    /\ BlackjackWin
    /\ game_state.initial_bet = 2
    /\ RoundRow.total_payout = 5
    /\ tokens = round_start + 3

----------------------------------------------------------------------------
(* C10 *)

\* C10: a Deal that gives the player a two-card 21 settles the round in the
\* same call: the round is not active afterwards, the dealer keeps the two
\* cards dealt and the deck its 48, no per-hand result of the dealer block is
\* produced, the dealer's hand is shown in full, the round row is completed,
\* and against a dealer 21 the result is a push paying the bet back.
C10_BlackjackSettlesOnDeal ==
    [][ (RoundDealt /\ calculate_hand_value(game_state'.hands[1].cards) = 21) =>
          /\ ~PlayerTurn'
          /\ SettledOnDeal'
          /\ Len(game_state'.dealer_hand) = 2
          /\ Len(game_state'.deck) = Len(create_deck) - 4
          /\ ui'.results = <<>>
          /\ ui'.dealer_display = format_hand(game_state'.dealer_hand)
          /\ \A i \in 1..Len(ui'.dealer_display) : ui'.dealer_display[i] # "??"
          /\ ui'.hit_disabled /\ ui'.stand_disabled
          /\ RoundRow'.round_status = "completed"
          /\ DealerScore' = 21 =>
                /\ RoundRow'.total_payout = game_state'.initial_bet
                /\ LastTransaction'.transaction_type = "blackjack_push"
                /\ LastTransaction'.amount = 0
                /\ tokens' = tokens ]_vars

\* both the player and the dealer were dealt a two-card 21
C10_Witness ==
    /\ SettledOnDeal
    /\ DealerScore = 21
    /\ ui.result_message = "Push! Both have blackjack."
    /\ tokens = round_start

----------------------------------------------------------------------------
(* C11 *)

\* the first n cards of the dealer's hand
DealerPrefix(n) == SubSeq(game_state.dealer_hand, 1, n)

\* C11: after the dealer block has settled a round the dealer's score is at
\* least 17, the dealer's hand before each card it drew (the two dealt cards
\* and every longer hand short of the final one) scored below 17, and a
\* dealer dealt an ace and a six holds just these two cards.
C11_DealerDrawsBelowSeventeen ==
    SettledByDealer =>
        /\ DealerScore >= 17
        /\ \A n \in 2..(Len(game_state.dealer_hand) - 1) :
              calculate_hand_value(DealerPrefix(n)) < 17
        /\ {DealerPrefix(2)[1].rank, DealerPrefix(2)[2].rank} = {"A", "6"} =>
              Len(game_state.dealer_hand) = 2

\* the dealer drew twice: below 17 with two and with three cards
C11_Witness ==
    /\ SettledByDealer
    /\ Len(game_state.dealer_hand) = 4
    /\ calculate_hand_value(DealerPrefix(3)) < 17
    /\ DealerScore >= 17

----------------------------------------------------------------------------
(* C12 *)

\* C12 as stated: the dealer always draws on a soft 17, so the hand the
\* dealer ends a round with is never a soft 17.
C12_DrawsOnSoftSeventeen ==
    SettledByDealer => ~SoftSeventeen(game_state.dealer_hand)

\* C12 as amended: the dealer stands on a soft 17: a dealer's hand that is a
\* soft 17, dealt or drawn to, is the hand the dealer ends the round with.
C12_StandsOnSoftSeventeen ==
    SettledByDealer =>
        \A n \in 2..Len(game_state.dealer_hand) :
            SoftSeventeen(DealerPrefix(n)) => n = Len(game_state.dealer_hand)

\* the dealer was dealt an ace and a six and the round ended on them
C12_Witness ==
    /\ SettledByDealer
    /\ SoftSeventeen(game_state.dealer_hand)
    /\ Len(game_state.dealer_hand) = 2
    /\ ui.dealer_display = <<"AS", "6S">>

----------------------------------------------------------------------------
(* C13 *)

\* the cards of a list of cards
CardsOf(cards) == {cards[i] : i \in 1..Len(cards)}

\* C13: a Deal that starts a round without a two-card 21 for the player
\* debits exactly the bet; the store then holds one player hand of two cards
\* with that bet, status active and not doubled, a dealer hand of two cards
\* and a deck of 48, which together are the 52 different cards of a fresh
\* deck; the current hand is hand 0 and the round is in PlayerTurn.
C13_DealStartsRound ==
    [][ \A bet_amount \in BetInputs :
          ( /\ Deal(bet_amount)
            /\ RoundDealt
            /\ calculate_hand_value(game_state'.hands[1].cards) # 21 ) =>
              /\ tokens' = tokens - bet_amount[1]
              /\ StepDebit = bet_amount[1]
              /\ Len(game_state'.hands) = 1
              /\ Len(game_state'.hands[1].cards) = 2
              /\ game_state'.hands[1].bet_amount = bet_amount[1]
              /\ game_state'.hands[1].status = "active"
              /\ game_state'.hands[1].is_doubled = FALSE
              /\ Len(game_state'.dealer_hand) = 2
              /\ Len(game_state'.deck) = 48
              /\ Cardinality(CardsOf(create_deck)) = 52
              /\ CardsOf(game_state'.deck) \cup CardsOf(game_state'.dealer_hand)
                    \cup CardsOf(game_state'.hands[1].cards) = CardsOf(create_deck)
              /\ game_state'.current_hand = 0
              /\ PlayerTurn'
              /\ ~game_state'.dealer_turn
              /\ RoundRow'.round_status = "active"
              /\ transactions' = transactions ]_vars

\* a round was just dealt for a bet of 2 out of a balance of 2
C13_Witness ==
    /\ PlayerTurn
    /\ ui.deal_disabled
    /\ Len(CurrentHand.cards) = 2
    /\ Len(game_state.deck) = 48
    /\ CurrentHand.bet_amount = 2
    /\ round_start = 2
    /\ tokens = 0

----------------------------------------------------------------------------
(* C14 *)

\* every player hand but the current one is the same before and after the step
OtherHandsKept ==
    /\ Len(game_state'.hands) = Len(game_state.hands)
    /\ \A j \in 1..Len(game_state.hands) :
          j # game_state.current_hand + 1 => game_state'.hands[j] = game_state.hands[j]

\* the hand that was current before the step, as it is after the step
HandPlayed == game_state'.hands[game_state.current_hand + 1]

\* this step finished the last hand: the dealer block ran and settled the round
RoundSettledByStep ==
    /\ game_state'.dealer_turn
    /\ SettledByDealer'
    /\ game_state'.round_id = game_state.round_id
    /\ RoundRow'.round_status = "completed"
    /\ Len(transactions') = Len(transactions) + 1

\* this step left the round in PlayerTurn with the hand at index i current
StillPlayerTurn(i) ==
    /\ PlayerTurn'
    /\ ~game_state'.dealer_turn
    /\ game_state'.current_hand = i
    /\ UNCHANGED <<blackjack_rounds, transactions>>

\* C14: a Hit in PlayerTurn appends to the current hand the one card on top
\* of the deck and debits nothing; if the hand then scores over 21 its status
\* is bust and the next hand becomes current, or, when it was the last hand,
\* the dealer's turn is taken; otherwise the hand stays current and active,
\* the round stays in PlayerTurn and the deck is one card shorter.  Bet and
\* the other hands are untouched.
C14_Hit ==
    [][ (PlayerTurn /\ Hit) =>
          /\ HandPlayed.cards = Append(CurrentHand.cards, Top(game_state.deck))
          /\ HandPlayed.bet_amount = CurrentHand.bet_amount
          /\ HandPlayed.is_doubled = CurrentHand.is_doubled
          /\ OtherHandsKept
          /\ round_debited' = round_debited
          /\ tokens' >= tokens
          /\ IF calculate_hand_value(HandPlayed.cards) > 21
             THEN /\ HandPlayed.status = "bust"
                  /\ IF game_state.current_hand + 1 < Len(game_state.hands)
                     THEN /\ StillPlayerTurn(game_state.current_hand + 1)
                          /\ game_state'.deck = Pop(game_state.deck)
                          /\ tokens' = tokens
                     ELSE RoundSettledByStep
             ELSE /\ HandPlayed.status = "active"
                  /\ StillPlayerTurn(game_state.current_hand)
                  /\ game_state'.deck = Pop(game_state.deck)
                  /\ tokens' = tokens ]_vars

\* a Hit busted the first of two hands and play moved to the second
C14_Witness ==
    /\ PlayerTurn
    /\ Len(game_state.hands) = 2
    /\ game_state.current_hand = 1
    /\ game_state.hands[1].status = "bust"
    /\ ~game_state.hands[1].is_doubled
    /\ Len(game_state.hands[1].cards) = 3
    /\ CurrentHand.status = "active"

----------------------------------------------------------------------------
(* C15 *)

\* C15: whenever the round is in PlayerTurn and the current hand holds more
\* than two cards, that is, it was hit and left active, in the snapshot the
\* Hit returned or in any later one, the double button and the split button
\* are disabled.
C15_NoDoubleNoSplitAfterHit ==
    (PlayerTurn /\ Len(CurrentHand.cards) > 2) =>
        /\ ui.double_disabled
        /\ ui.split_disabled
        /\ ~ui.hit_disabled
        /\ ~ui.stand_disabled

\* a hand was hit twice and a Double then requested on it was refused for
\* lack of funds: a later snapshot of the hand
C15_Witness ==
    /\ PlayerTurn
    /\ Len(CurrentHand.cards) = 4
    /\ CurrentHand.status = "active"
    /\ toast = "Not enough tokens to double down."
    /\ ui.double_disabled

----------------------------------------------------------------------------
(* C16 *)

\* C16: a Double in PlayerTurn that the balance covers debits exactly the
\* current hand's bet, doubles that bet, sets is_doubled, appends the one
\* card on top of the deck, sets the status to bust if the score exceeds 21
\* and to stand otherwise, and moves to the next hand or, after the last
\* hand, takes the dealer's turn; and in no step of a round, whatever the
\* request, does a hand that is doubled change.
C16_Double ==
    [][ /\ (PlayerTurn /\ tokens >= CurrentHand.bet_amount /\ Double) =>
              /\ round_debited' = round_debited + CurrentHand.bet_amount
              /\ HandPlayed.bet_amount = 2 * CurrentHand.bet_amount
              /\ HandPlayed.is_doubled
              /\ HandPlayed.cards = Append(CurrentHand.cards, Top(game_state.deck))
              /\ HandPlayed.status =
                    IF calculate_hand_value(HandPlayed.cards) > 21 THEN "bust" ELSE "stand"
              /\ OtherHandsKept
              /\ IF game_state.current_hand + 1 < Len(game_state.hands)
                 THEN /\ StillPlayerTurn(game_state.current_hand + 1)
                      /\ game_state'.deck = Pop(game_state.deck)
                      /\ tokens' = tokens - CurrentHand.bet_amount
                 ELSE /\ RoundSettledByStep
                      /\ tokens' = tokens - CurrentHand.bet_amount + RoundRow'.total_payout
        /\ \A i \in 1..Len(game_state.hands) :
              (game_state.hands[i].is_doubled
                 /\ game_state'.round_id = game_state.round_id) =>
                    /\ Len(game_state'.hands) >= i
                    /\ game_state'.hands[i] = game_state.hands[i] ]_vars

\* after a split the first hand was doubled and play moved to the second
C16_Witness ==
    /\ PlayerTurn
    /\ game_state.current_hand = 1
    /\ game_state.hands[1].is_doubled
    /\ game_state.hands[1].bet_amount = 2 * game_state.initial_bet
    /\ Len(game_state.hands[1].cards) = 3
    /\ round_debited = 3 * game_state.initial_bet
    /\ tokens = round_start - round_debited

----------------------------------------------------------------------------
(* C17 *)

\* C17: a Split in PlayerTurn of a current hand of two cards that the balance
\* covers debits exactly that hand's bet, takes exactly the two top cards off
\* the deck, and adds exactly one hand: the current hand becomes its first
\* card plus the first card drawn, another hand holds its second card plus
\* the second card drawn, both are active and carry the original bet, and
\* the hands that were there besides the current one are unchanged.
C17_Split ==
    [][ ( /\ PlayerTurn
          /\ Len(CurrentHand.cards) = 2
          /\ tokens >= CurrentHand.bet_amount
          /\ Split ) =>
            /\ tokens' = tokens - CurrentHand.bet_amount
            /\ round_debited' = round_debited + CurrentHand.bet_amount
            /\ Len(game_state'.hands) = Len(game_state.hands) + 1
            /\ game_state'.deck = Pop(Pop(game_state.deck))
            /\ Len(game_state'.deck) = Len(game_state.deck) - 2
            /\ HandPlayed.cards = <<CurrentHand.cards[1], Top(game_state.deck)>>
            /\ HandPlayed.bet_amount = CurrentHand.bet_amount
            /\ HandPlayed.status = "active"
            /\ \E k \in 1..Len(game_state'.hands) :
                  /\ k # game_state.current_hand + 1
                  /\ game_state'.hands[k].cards =
                        <<CurrentHand.cards[2], Top(Pop(game_state.deck))>>
                  /\ game_state'.hands[k].bet_amount = CurrentHand.bet_amount
                  /\ game_state'.hands[k].status = "active"
                  /\ \A j \in 1..Len(game_state.hands) :
                        j # game_state.current_hand + 1 =>
                            \E m \in 1..Len(game_state'.hands) :
                                m # k /\ game_state'.hands[m] = game_state.hands[j]
            /\ PlayerTurn'
            /\ UNCHANGED <<blackjack_rounds, transactions>> ]_vars

\* a pair of eights was split: two active hands of two cards, one eight each
C17_Witness ==
    /\ PlayerTurn
    /\ Len(game_state.hands) = 2
    /\ game_state.current_hand = 0
    /\ \A i \in 1..2 :
          /\ Len(game_state.hands[i].cards) = 2
          /\ game_state.hands[i].cards[1].rank = "8"
          /\ game_state.hands[i].status = "active"
          /\ game_state.hands[i].bet_amount = game_state.initial_bet
    /\ Len(game_state.deck) = 46
    /\ round_debited = 2 * game_state.initial_bet

----------------------------------------------------------------------------
(* C18 *)

\* C18: after an accepted Split of a pair at index i the two resulting hands
\* are at positions i and i+1, the hands before i are where they were, the
\* hands that were after i follow in their order, and hand i is current.
C18_SplitHandsAdjacent ==
    [][ ( /\ PlayerTurn
          /\ can_split_hand(CurrentHand.cards)
          /\ tokens >= CurrentHand.bet_amount
          /\ Split ) =>
            LET i == game_state.current_hand + 1
            IN  /\ Len(game_state'.hands) = Len(game_state.hands) + 1
                /\ game_state'.current_hand = game_state.current_hand
                /\ game_state'.hands[i].cards =
                      <<CurrentHand.cards[1], Top(game_state.deck)>>
                /\ game_state'.hands[i + 1].cards =
                      <<CurrentHand.cards[2], Top(Pop(game_state.deck))>>
                /\ \A j \in 1..Len(game_state.hands) :
                      /\ j < i => game_state'.hands[j] = game_state.hands[j]
                      /\ j > i => game_state'.hands[j + 1] = game_state.hands[j] ]_vars

----------------------------------------------------------------------------
(* C19 *)

\* C19: whenever the round is in PlayerTurn, the current hand is one that a
\* Split produced (the round has more than one hand), it is a pair and the
\* balance covers its bet, the split button is enabled.
C19_ReSplitOffered ==
    ( /\ PlayerTurn
      /\ Len(game_state.hands) > 1
      /\ can_split_hand(CurrentHand.cards)
      /\ tokens >= CurrentHand.bet_amount ) => ~ui.split_disabled

----------------------------------------------------------------------------
(* C20 *)

\* the current hand is the last of the list
OnLastHand == game_state.current_hand + 1 = Len(game_state.hands)

\* C20: a Stand in PlayerTurn sets the current hand's status to stand and
\* changes neither its cards nor its bet, no other hand and no debit; with a
\* hand left it makes the next hand current and leaves deck, dealer hand and
\* balance as they were; and whenever a step of a round, be it a Stand, a
\* Hit that busts or an accepted Double, leaves the last hand with status
\* stand or bust, the same step takes the dealer's turn and settles the
\* round, so that no state in between (dealer_turn set on an active round)
\* is ever returned.
C20_StandAndSettle ==
    [][ /\ (PlayerTurn /\ Stand) =>
              /\ HandPlayed = [CurrentHand EXCEPT !.status = "stand"]
              /\ OtherHandsKept
              /\ round_debited' = round_debited
              /\ IF OnLastHand
                 THEN /\ RoundSettledByStep
                      /\ tokens' = tokens + RoundRow'.total_payout
                 ELSE /\ StillPlayerTurn(game_state.current_hand + 1)
                      /\ tokens' = tokens
                      /\ game_state'.deck = game_state.deck
                      /\ game_state'.dealer_hand = game_state.dealer_hand
        /\ ( /\ PlayerTurn
             /\ OnLastHand
             /\ game_state'.round_id = game_state.round_id
             /\ Len(game_state'.hands) = Len(game_state.hands)
             /\ HandPlayed.status \in {"stand", "bust"} ) =>
                /\ RoundSettledByStep
                /\ ~PlayerTurn'
                /\ Len(ui'.results) = Len(game_state'.hands)
                /\ ui'.result_message = "Round Complete!"
                /\ ui'.dealer_display = format_hand(game_state'.dealer_hand)
                /\ ~ui'.deal_disabled /\ ui'.hit_disabled /\ ui'.stand_disabled
        /\ ~(game_state'.dealer_turn /\ game_state'.game_active) ]_vars

\* two split hands were both stood on and the second Stand settled the round
C20_Witness ==
    /\ SettledByDealer
    /\ Len(game_state.hands) = 2
    /\ game_state.current_hand = 1
    /\ \A i \in 1..2 :
          /\ game_state.hands[i].status = "stand"
          /\ Len(game_state.hands[i].cards) = 2
          /\ ~game_state.hands[i].is_doubled
    /\ Len(ui.results) = 2
    /\ RoundRow.round_status = "completed"

----------------------------------------------------------------------------
(* C21 *)

\* the snapshot is the one a Deal returned for a round in PlayerTurn: only
\* the deal branch returns the deal button disabled
JustDealt == PlayerTurn /\ ui.deal_disabled

\* C21: in the snapshot a non-blackjack Deal returned, the double button is
\* enabled exactly when the hand has two cards and the balance, the bet
\* already debited, covers the hand's bet, and the split button exactly
\* when the hand is a pair and that balance covers the hand's bet.
C21_OfferedFromDebitedBalance ==
    JustDealt =>
        /\ ~ui.double_disabled <=>
              (can_double_down(CurrentHand.cards) /\ tokens >= CurrentHand.bet_amount)
        /\ ~ui.split_disabled <=>
              (can_split_hand(CurrentHand.cards) /\ tokens >= CurrentHand.bet_amount)

----------------------------------------------------------------------------
(* C22 *)

\* C22: whenever the round is in PlayerTurn, current_hand is an index of the
\* list of hands, the hand there is active, every hand before it has status
\* stand or bust and every hand after it is active.
C22_CurrentHandActive ==
    PlayerTurn =>
        /\ game_state.current_hand \in 0..(Len(game_state.hands) - 1)
        /\ \A j \in 1..Len(game_state.hands) :
              IF j < game_state.current_hand + 1
              THEN game_state.hands[j].status \in {"stand", "bust"}
              ELSE game_state.hands[j].status = "active"

\* of three hands the first is finished, the second current, the third waits
C22_Witness ==
    /\ PlayerTurn
    /\ Len(game_state.hands) = 3
    /\ game_state.current_hand = 1
    /\ game_state.hands[1].status \in {"stand", "bust"}
    /\ game_state.hands[2].status = "active"
    /\ game_state.hands[3].status = "active"

----------------------------------------------------------------------------
(* C23 *)

\* the cards of all the hands of a list, one after the other
RECURSIVE HandsCards(_)
HandsCards(hands) ==
    IF hands = <<>> THEN <<>> ELSE Head(hands).cards \o HandsCards(Tail(hands))

\* every card the round holds: deck, dealer's hand, player hands
RoundCards ==
    game_state.deck \o game_state.dealer_hand \o HandsCards(game_state.hands)

\* C23: in every state of a round the cards of the deck, of the dealer and
\* of the player hands are 52 cards, no two the same, and are the 52 cards
\* of create_deck: no card was drawn twice and none has disappeared.
C23_CardsConserved ==
    game_state.round_id > 0 =>
        /\ Len(RoundCards) = 52
        /\ Cardinality(CardsOf(RoundCards)) = 52
        /\ CardsOf(RoundCards) = CardsOf(create_deck)

----------------------------------------------------------------------------
(* C24 *)

\* the hand's bet is the round's initial bet, or twice that when doubled
BetFollowsDoubled(gs, hand) ==
    hand.bet_amount = IF hand.is_doubled THEN 2 * gs.initial_bet ELSE gs.initial_bet

\* C24: after every step each hand's bet is the round's initial bet if the
\* hand is not doubled and twice that if it is; within a round the bet and
\* the doubled mark of an existing hand change only together, on the current
\* hand, from not doubled to doubled with the bet exactly doubled, that bet
\* debited and a card drawn, which is what Double does; and a Hit, a Stand or
\* a Split leaves the bet of every existing hand as it was.
C24_BetChangesOnlyByDouble ==
    [][ /\ \A j \in 1..Len(game_state'.hands) :
              BetFollowsDoubled(game_state', game_state'.hands[j])
        /\ game_state'.round_id = game_state.round_id =>
              \A j \in 1..Len(game_state.hands) :
                  /\ j <= Len(game_state'.hands)
                  /\ \/ /\ game_state'.hands[j].bet_amount = game_state.hands[j].bet_amount
                         /\ game_state'.hands[j].is_doubled = game_state.hands[j].is_doubled
                      \/ /\ PlayerTurn
                         /\ j = game_state.current_hand + 1
                         /\ ~game_state.hands[j].is_doubled
                         /\ game_state'.hands[j].is_doubled
                         /\ game_state'.hands[j].bet_amount = 2 * game_state.hands[j].bet_amount
                         /\ round_debited' = round_debited + game_state.hands[j].bet_amount
                         /\ Len(game_state'.hands[j].cards) = Len(game_state.hands[j].cards) + 1
        /\ (PlayerTurn /\ (Hit \/ Stand \/ Split)) =>
              \A j \in 1..Len(game_state.hands) :
                  game_state'.hands[j].bet_amount = game_state.hands[j].bet_amount ]_vars

\* of the hands of a split one was doubled and the other, still to be
\* played, keeps the initial bet
C24_Witness ==
    /\ PlayerTurn
    /\ Len(game_state.hands) = 2
    /\ game_state.current_hand = 1
    /\ game_state.hands[1].is_doubled
    /\ game_state.hands[1].bet_amount = 2
    /\ ~game_state.hands[2].is_doubled
    /\ game_state.hands[2].bet_amount = 1
    /\ game_state.initial_bet = 1

----------------------------------------------------------------------------
(* C26 *)

\* C26: a Hit, Stand, Double or Split sent while no round is active (none
\* dealt yet, or the round settled) leaves round and balance unchanged and
\* returns a rejection to the caller, that is a toast.
C26_NoActiveRoundRejected ==
    [][ (~PlayerTurn /\ (Hit \/ Stand \/ Double \/ Split)) =>
            /\ UNCHANGED <<tokens, game_state, blackjack_rounds, transactions>>
            /\ Rejected ]_vars

----------------------------------------------------------------------------
(* C25: interleaved debits and the sign of the balance *)

\* C25: when two debiting calls of the user are interleaved (two deals, or a
\* deal, double or split with a spin of the slot machine), the balance never
\* becomes negative
C25_BalanceNeverNegative == tokens >= 0

----------------------------------------------------------------------------
(* C27: debits and the round-state changes they pay for *)

\* the store holds the round the step inserted, with its two-card hand
NewRoundApplied ==
    /\ RoundDealt
    /\ game_state'.round_id = Len(blackjack_rounds')
    /\ Len(game_state'.hands) = 1
    /\ Len(game_state'.hands[1].cards) = 2

\* the current hand has its bet doubled and the card on top of the deck
DoubleApplied ==
    /\ PlayerTurn
    /\ Len(game_state'.hands) = Len(game_state.hands)
    /\ game_state.deck # <<>>
    /\ HandPlayed.bet_amount = 2 * CurrentHand.bet_amount
    /\ HandPlayed.cards = Append(CurrentHand.cards, Top(game_state.deck))

\* the round has one hand more and the deck two cards less
SplitApplied ==
    /\ PlayerTurn
    /\ Len(game_state'.hands) = Len(game_state.hands) + 1
    /\ Len(game_state'.deck) = Len(game_state.deck) - 2

\* C27: a Deal, Double or Split that debits nothing draws no card and creates
\* or changes no hand, and a step that debits applies the round-state change
\* the debit pays for: the new round, the doubled bet with its card, or the
\* two split hands
C27_AllOrNothing ==
    [][ /\ (StepDebit = 0 /\ (Rejected \/ Double \/ Split))
              => UNCHANGED <<tokens, game_state, blackjack_rounds>>
        /\ StepDebit > 0 => (NewRoundApplied \/ DoubleApplied \/ SplitApplied) ]_vars

----------------------------------------------------------------------------
(* C28: the value of a hand *)

\* the value of a card with an ace counted 1
CardPoints(card) ==
    IF card.rank = "A" THEN 1
    ELSE IF card.rank \in {"J", "Q", "K"} THEN 10
    ELSE IntRank(card.rank)

RECURSIVE HardTotal(_)
HardTotal(hand) ==
    IF hand = <<>> THEN 0 ELSE CardPoints(Head(hand)) + HardTotal(Tail(hand))

AcesIn(hand) == Cardinality({i \in 1..Len(hand) : hand[i].rank = "A"})

\* the totals of the hand over every choice of 1 or 11 for each ace
AceChoices(hand) == {HardTotal(hand) + 10 * k : k \in 0..AcesIn(hand)}

\* the largest of them that is at most 21, or the total with every ace 1
BestTotal(hand) ==
    LET fit == {t \in AceChoices(hand) : t <= 21}
    IN  IF fit = {} THEN HardTotal(hand)
        ELSE CHOOSE t \in fit : \A u \in fit : u <= t

\* C28: the value of a hand is the largest total at most 21 over the choices
\* of 1 or 11 for each ace (every other card at its value, J, Q and K at 10),
\* or the total with every ace 1 when every choice exceeds 21; k aces alone
\* are worth 11, 12, 13, 14 for k = 1..4
C28_ScoreIsBestTotal ==
    LET hand == helper_call.hand
    IN  /\ helper_call.value = BestTotal(hand)
        /\ (Len(hand) >= 1 /\ AcesIn(hand) = Len(hand)) => helper_call.value = 10 + Len(hand)

\* the four aces alone are worth 14
C28_Witness ==
    /\ Len(helper_call.hand) = 4
    /\ AcesIn(helper_call.hand) = 4
    /\ helper_call.value = 14

----------------------------------------------------------------------------
(* C29: which hands may be split or doubled *)

TenValued == {"10", "J", "Q", "K"}

----------------------------------------------------------------------------
(* C31: the deal button while a round is played *)

\* C31: in every snapshot returned while the round is in the player's turn
\* the deal button is disabled, and it is enabled once the round is settled
C31_DealNotOfferedInPlayerTurn ==
    /\ PlayerTurn => ui.deal_disabled
    /\ Settled => ~ui.deal_disabled

----------------------------------------------------------------------------
(* C32: the last stand of a round sent twice *)

\* C32: when the call that finishes the last hand is served twice from the
\* same store, the round's payout is credited once and one audit transaction
\* is written: there are no more transactions than completed rounds, and the
\* balance of a settled round is the balance before its deal, less the
\* debits, plus its total payout
C32_SettledOnceWhenSentTwice ==
    /\ Len(transactions) <= Cardinality(CompletedRounds)
    /\ Settled => tokens = round_start - round_debited + RoundRow.total_payout

----------------------------------------------------------------------------
(* C33: draws and the cards left in the deck *)

\* C33: no accepted action draws from an empty deck.  In the player's turn a
\* Hit is accepted and draws one card, a Double or Split the balance covers
\* is accepted and draws one or two, and a Stand or Double on the last hand
\* is followed by the dealer's draws: the deck holds a card at each of them
C33_NeverDrawsFromEmptyDeck ==
    PlayerTurn =>
        /\ game_state.deck # <<>>
        /\ tokens >= CurrentHand.bet_amount => Len(game_state.deck) >= 2
        /\ OnLastHand => ~DealerRunsOut(game_state.dealer_hand, game_state.deck)
        /\ (OnLastHand /\ tokens >= CurrentHand.bet_amount /\ game_state.deck # <<>>)
              => ~DealerRunsOut(game_state.dealer_hand, Pop(game_state.deck))

----------------------------------------------------------------------------
(* C34: the round can always be brought to its settlement *)

\* C34: every round terminates; in particular, from every state of the
\* player's turn a Stand on each remaining hand settles the round: the stands
\* draw no card, so the dealer's loop, run on the deck as it is, ends with a
\* total of 17 or more and the settlement follows
C34_StandingSettlesTheRound ==
    PlayerTurn => ~DealerRunsOut(game_state.dealer_hand, game_state.deck)

----------------------------------------------------------------------------
(* C35: the status of a hand and its score *)

HandScore(i) == calculate_hand_value(game_state.hands[i].cards)

\* C35: a hand has status bust exactly when its score exceeds 21 (so a hand
\* with status stand or active has a score of at most 21), and in the results
\* of a settled round a hand above 21 is paid nothing and a hand of at most
\* 21 loses only to a dealer who has more without exceeding 21
C35_BustIffOverTwentyOne ==
    /\ \A i \in 1..Len(game_state.hands) :
          /\ game_state.hands[i].status \in {"active", "stand", "bust"}
          /\ game_state.hands[i].status = "bust" <=> HandScore(i) > 21
    /\ ResultsShown =>
          \A i \in 1..Len(game_state.hands) :
              /\ HandScore(i) > 21 =>
                    (ui.results[i].result = "lose" /\ ui.results[i].payout = 0)
              /\ (HandScore(i) <= 21 /\ ui.results[i].result = "lose") =>
                    (DealerScore <= 21 /\ DealerScore > HandScore(i))

\* a round was settled with one hand bust and paid nothing and another hand
\* that stood and was paid
C35_Witness ==
    /\ ResultsShown
    /\ \E i, j \in 1..Len(game_state.hands) :
          /\ game_state.hands[i].status = "bust"
          /\ HandScore(i) > 21
          /\ ui.results[i].payout = 0
          /\ game_state.hands[j].status = "stand"
          /\ HandScore(j) <= 21
          /\ ui.results[j].payout = 2 * game_state.hands[j].bet_amount

----------------------------------------------------------------------------
(* C36: what a call leaves alone *)

\* the hands of the round other than the current one are, after the step,
\* what they were; the round has the same hands, or one more when grown holds
HandsElsewhereKept(grown) ==
    /\ \/ Len(game_state'.hands) = Len(game_state.hands)
       \/ grown /\ Len(game_state'.hands) = Len(game_state.hands) + 1
    /\ \A j \in 1..Len(game_state.hands) :
          j # game_state.current_hand + 1 => game_state'.hands[j] = game_state.hands[j]

\* C36: a Hit, Stand, Double or Split in the player's turn changes no player
\* hand other than the current one (a Split also creates one hand); the
\* dealer's hand is unchanged unless the call ends the player's turn; and a
\* Hit or Stand that does not settle the round leaves the balance unchanged
C36_OnlyCurrentHandChanges ==
    [][ /\ (PlayerTurn /\ (Hit \/ Stand \/ Double)) => HandsElsewhereKept(FALSE)
        /\ (PlayerTurn /\ Split) => HandsElsewhereKept(TRUE)
        /\ (PlayerTurn /\ (Hit \/ Stand \/ Double \/ Split) /\ ~game_state'.dealer_turn)
              => game_state'.dealer_hand = game_state.dealer_hand
        /\ (PlayerTurn /\ (Hit \/ Stand) /\ PlayerTurn') => tokens' = tokens ]_vars

\* the first of two hands stood with its two cards and the second, current
\* and active, was hit
C36_Witness ==
    /\ PlayerTurn
    /\ Len(game_state.hands) = 2
    /\ game_state.current_hand = 1
    /\ game_state.hands[1].status = "stand"
    /\ Len(game_state.hands[1].cards) = 2
    /\ game_state.hands[2].status = "active"
    /\ Len(game_state.hands[2].cards) = 3

----------------------------------------------------------------------------
(* C37: where the blackjack payout applies *)

\* the round holds the one hand of the deal, two cards scoring 21
TwoCardTwentyOneOnDeal ==
    /\ Len(game_state.hands) = 1
    /\ Len(game_state.hands[1].cards) = 2
    /\ HandScore(1) = 21
    /\ game_state.hands[1].bet_amount = game_state.initial_bet

====
